---- MODULE Spec2Model ----
(***************************************************************************)
(* Device connection and firmware-mode management of the Greaseweazle      *)
(* host tools (scripts/greaseweazle/tools/util.py): port scoring, port     *)
(* location, session open, mode check and the mode-switch reopen loop.     *)
(***************************************************************************)
EXTENDS Integers, Sequences, FiniteSets, TLC

----------------------------------------------------------------------------
(* Python values.  An attribute that may be None is a sequence of length   *)
(* 0 (None) or 1 (the value).  A serial number is a sequence of            *)
(* characters, so that upper() and startswith() are computed.              *)

None == <<>>

Some(v) == <<v>>

Val(o) == o[1]

\* Python truthiness of an optional character sequence (None and "" are falsy)
TruthySeq(o) == o # None /\ Val(o) # <<>>

\* Python truthiness of an optional atomic string
TruthyStr(o) == o # None /\ Val(o) # ""

\* str.upper() on one character
UpperChar(c) ==
    CASE c = "g" -> "G"
      [] c = "w" -> "W"
      [] c = "x" -> "X"
      [] OTHER -> c

\* str.upper()
Upper(s) == [k \in 1..Len(s) |-> UpperChar(s[k])]

\* str.startswith(prefix)
StartsWith(s, prefix) ==
    Len(s) >= Len(prefix) /\ SubSeq(s, 1, Len(prefix)) = prefix

GWTag == <<"G", "W">>

----------------------------------------------------------------------------
(* Identity signals tested by score_port                                   *)

VID_PIDCODES == 4617      \* 0x1209

PID_GREASEWEAZLE == 19817 \* 0x4d69

PID_TEST == 1             \* 0x0001

VID_RASPBERRYPI == 11914  \* 0x2E8A

VID_ADAFRUIT == 9114      \* 0x239A

\* valid_ser_id(ser_id): ser_id and ser_id.upper().startswith("GW")
valid_ser_id(ser_id) ==
    TruthySeq(ser_id) /\ StartsWith(Upper(Val(ser_id)), GWTag)

\* score_port, the if/elif chain on manufacturer, product, vid and pid
BaseScore(x) ==
    IF x.manufacturer = Some("Keir Fraser") /\ x.product = Some("Greaseweazle")
    THEN 20
    ELSE IF x.vid = Some(VID_PIDCODES) /\ x.pid = Some(PID_GREASEWEAZLE)
    THEN 20
    ELSE IF x.vid = Some(VID_PIDCODES) /\ x.pid = Some(PID_TEST)
    THEN 10
    ELSE IF x.vid \in {Some(VID_RASPBERRYPI), Some(VID_ADAFRUIT)}
    THEN 5
    ELSE 0

\* SerialRule with the matching serial scored like a fresh discovery
SerialRule_NoMatchBonus(score, x, old_port) ==
    IF score > 0 /\ valid_ser_id(x.serial_number)
    THEN IF old_port = None \/ ~valid_ser_id(Val(old_port).serial_number)
         THEN 20
         ELSE IF x.serial_number = Val(old_port).serial_number
         THEN 20
         ELSE 0
    ELSE score

\* SerialRule with a differing serial leaving the score as it was
SerialRule_IgnoreMismatch(score, x, old_port) ==
    IF score > 0 /\ valid_ser_id(x.serial_number)
    THEN IF old_port = None \/ ~valid_ser_id(Val(old_port).serial_number)
         THEN 20
         ELSE IF x.serial_number = Val(old_port).serial_number
         THEN 30
         ELSE score
    ELSE score

\* SerialRule applied whatever the running score is
SerialRule_NoBaseGuard(score, x, old_port) ==
    IF valid_ser_id(x.serial_number)
    THEN IF old_port = None \/ ~valid_ser_id(Val(old_port).serial_number)
         THEN 20
         ELSE IF x.serial_number = Val(old_port).serial_number
         THEN 30
         ELSE 0
    ELSE score

\* score_port, the serial-id rule applied to the running score
SerialRule(score, x, old_port) ==
    IF score > 0 /\ valid_ser_id(x.serial_number)
    THEN IF old_port = None \/ ~valid_ser_id(Val(old_port).serial_number)
         THEN 20
         ELSE IF x.serial_number = Val(old_port).serial_number
         THEN 30
         ELSE 0
    ELSE score

\* LocationRule that lets a candidate without a location pass
LocationRule_OnlyWhenPresent(score, x, old_port) ==
    IF old_port # None /\ TruthyStr(Val(old_port).location)
    THEN IF TruthyStr(x.location) /\ x.location # Val(old_port).location
         THEN 0
         ELSE score
    ELSE score

\* LocationRule that rewards a matching location
LocationRule_BonusOnMatch(score, x, old_port) ==
    IF old_port # None /\ TruthyStr(Val(old_port).location)
    THEN IF ~TruthyStr(x.location) \/ x.location # Val(old_port).location
         THEN 0
         ELSE score + 10
    ELSE score

\* score_port, the location rule applied to the running score
LocationRule(score, x, old_port) ==
    IF old_port # None /\ TruthyStr(Val(old_port).location)
    THEN IF ~TruthyStr(x.location) \/ x.location # Val(old_port).location
         THEN 0
         ELSE score
    ELSE score

score_port(x, old_port) ==
    LocationRule(SerialRule(BaseScore(x), x, old_port), x, old_port)

\* The debug line of find_port formats x.vid and x.pid with %04X, which
\* raises TypeError for a port that has no USB ids (vid/pid None).
LogFormatOK(x) == x.vid # None /\ x.pid # None

\* FindLoop where a later candidate of equal score replaces the best
RECURSIVE FindLoop_LastWins(_, _, _, _, _)
FindLoop_LastWins(ports, old_port, k, best_score, best_port) ==
    IF k > Len(ports)
    THEN IF best_port # None
         THEN [kind |-> "ok", device |-> Val(best_port).device]
         ELSE [kind |-> "SerialException", device |-> ""]
    ELSE IF ~LogFormatOK(ports[k])
    THEN [kind |-> "TypeError", device |-> ""]
    ELSE IF score_port(ports[k], old_port) >= best_score
    THEN FindLoop_LastWins(ports, old_port, k + 1,
                           score_port(ports[k], old_port), Some(ports[k]))
    ELSE FindLoop_LastWins(ports, old_port, k + 1, best_score, best_port)

\* find_port, the loop over comports() from index k on
RECURSIVE FindLoop(_, _, _, _, _)
FindLoop(ports, old_port, k, best_score, best_port) ==
    IF k > Len(ports)
    THEN IF best_port # None
         THEN [kind |-> "ok", device |-> Val(best_port).device]
         ELSE [kind |-> "SerialException", device |-> ""]
    ELSE IF ~LogFormatOK(ports[k])
    THEN [kind |-> "TypeError", device |-> ""]
    ELSE IF score_port(ports[k], old_port) > best_score
    THEN FindLoop(ports, old_port, k + 1,
                  score_port(ports[k], old_port), Some(ports[k]))
    ELSE FindLoop(ports, old_port, k + 1, best_score, best_port)

find_port(ports, old_port) == FindLoop(ports, old_port, 1, 0, None)

\* port_info, the loop over comports() from index k on
RECURSIVE PortInfoLoop(_, _, _)
PortInfoLoop(ports, devname, k) ==
    IF k > Len(ports)
    THEN None
    ELSE IF ports[k].device = devname
    THEN Some(ports[k])
    ELSE PortInfoLoop(ports, devname, k + 1)

port_info(ports, devname) == PortInfoLoop(ports, devname, 1)

----------------------------------------------------------------------------
(* The host and the device, as far as util.py sees them                    *)

\* A serial.tools.list_ports entry (ListPortInfo)
ListPortInfo(device, manufacturer, product, vid, pid, serial_number, location) ==
    [device |-> device, manufacturer |-> manufacturer, product |-> product,
     vid |-> vid, pid |-> pid, serial_number |-> serial_number,
     location |-> location]

\* The unit, enumerated at its first path
PortA == ListPortInfo("/dev/ttyACM0", Some("Keir Fraser"), Some("Greaseweazle"),
                      Some(VID_PIDCODES), Some(PID_GREASEWEAZLE),
                      Some(<<"G", "W", "1">>), Some("1-1"))

\* The same unit after re-enumeration at another path
PortA1 == [PortA EXCEPT !.device = "/dev/ttyACM1"]

\* A second unit, which may take over a path the first one had
PortB == ListPortInfo("/dev/ttyACM1", Some("Keir Fraser"), Some("Greaseweazle"),
                      Some(VID_PIDCODES), Some(PID_GREASEWEAZLE),
                      Some(<<"G", "W", "2">>), Some("1-2"))

\* A serial port that is no USB device: every USB attribute is None
PortS == ListPortInfo("/dev/ttyS0", None, None, None, None, None, None)

HostPorts == {PortA, PortA1, PortB, PortS}

\* Bound: the longest list comports() returns
MaxPorts == 2

\* What comports() may return: lists of ports with pairwise distinct paths
Enumerations ==
    {ps \in UNION {[1..n -> HostPorts] : n \in 0..MaxPorts} :
        \A a, b \in 1..Len(ps) : a # b => ps[a].device # ps[b].device}

DevicePaths == {p.device : p \in HostPorts \ {PortS}}

\* The attributes USB.Unit reads from the device when it is constructed
Infos ==
    {[update_mode |-> m, update_jumpered |-> j, update_needed |-> n,
      hw_model |-> hw[1], hw_submodel |-> hw[2]] :
        m \in BOOLEAN, j \in BOOLEAN, n \in BOOLEAN,
        hw \in {<<1, 0>>, <<1, 1>>, <<4, 0>>}}

\* What a unit answers when it is queried again after a mode switch: the mode,
\* the jumper and the firmware it now runs may differ, the board does not
ReopenInfos(u) ==
    {info \in Infos :
        info.hw_model = u.hw_model /\ info.hw_submodel = u.hw_submodel}

\* USB.Unit(ser): the session object, before util.py adds its own attributes
Unit(ser, info) ==
    [ser |-> ser,
     update_mode |-> info.update_mode,
     update_jumpered |-> info.update_jumpered,
     update_needed |-> info.update_needed,
     hw_model |-> info.hw_model,
     hw_submodel |-> info.hw_submodel,
     port_info |-> None,
     jumperless_update |-> FALSE,
     can_mode_switch |-> FALSE]

\* serial.Serial(devicename): an open channel, handle number id
Serial(id, devicename) == [id |-> id, port |-> devicename]

\* JumperlessUpdate that looks at the hardware model alone
JumperlessUpdate_ModelOnly(u, is_win7) ==
    u.hw_model # 1 /\ ~is_win7

\* usb_open: usb.jumperless_update
JumperlessUpdate(u, is_win7) ==
    <<u.hw_model, u.hw_submodel>> # <<1, 0>> /\ ~is_win7

\* usb_open: usb.can_mode_switch
CanModeSwitch(u) ==
    u.jumperless_update /\ ~(u.update_mode /\ u.update_jumpered)

\* usb_open, from the Unit construction to the can_mode_switch assignment
OpenedUnit(ser, info, ports, is_win7) ==
    LET u0 == [Unit(ser, info) EXCEPT !.port_info = port_info(ports, ser.port)]
        u1 == [u0 EXCEPT !.jumperless_update = JumperlessUpdate(u0, is_win7)]
    IN  [u1 EXCEPT !.can_mode_switch = CanModeSwitch(u1)]

\* ReopenedUnit opened on the path the old session had
ReopenedUnit_OldPath(ser, info, ports, usb) ==
    [Unit([ser EXCEPT !.port = usb.ser.port], info) EXCEPT
        !.port_info = port_info(ports, usb.ser.port),
        !.jumperless_update = usb.jumperless_update,
        !.can_mode_switch = usb.can_mode_switch]

\* ReopenedUnit with can_mode_switch derived again from the new session
ReopenedUnit_Recompute(ser, info, ports, usb) ==
    LET u == [Unit(ser, info) EXCEPT
                 !.port_info = port_info(ports, ser.port),
                 !.jumperless_update = usb.jumperless_update]
    IN  [u EXCEPT !.can_mode_switch = CanModeSwitch(u)]

\* usb_reopen, the else branch: the new session with the old one's flags
ReopenedUnit(ser, info, ports, usb) ==
    [Unit(ser, info) EXCEPT
        !.port_info = port_info(ports, ser.port),
        !.jumperless_update = usb.jumperless_update,
        !.can_mode_switch = usb.can_mode_switch]

\* usb_reopen: mode = { False: 1, True: 0 }
SwitchModeArg(is_update) == IF is_update THEN 0 ELSE 1

\* What usb.switch_fw_mode may do
SwitchOutcomes == {"ok", "SerialException", "struct.error"}

\* An except clause that names serial.SerialException alone
SwitchCaught_OnlySerial(outcome) == outcome = "SerialException"

\* usb_reopen: except (serial.SerialException, struct.error): pass
SwitchCaught(outcome) == outcome \in {"SerialException", "struct.error"}

\* usb_reopen: for i in range(10)
MaxAttempts == 10

\* LoopContinues with one iteration too many
LoopContinues_OffByOne(i) == i <= MaxAttempts

LoopContinues(i) == i < MaxAttempts

\* ModeCheckBranch that switches mode whatever can_mode_switch says
ModeCheckBranch_AlwaysSwitch(u, is_update) ==
    IF u.update_mode /\ ~is_update
    THEN "reopen_to_normal"
    ELSE IF is_update /\ ~u.update_mode
    THEN "reopen_to_update"
    ELSE IF ~u.update_mode /\ u.update_needed
    THEN "exit_unsupported"
    ELSE "return"

\* ModeCheckBranch without the unsupported-firmware test
ModeCheckBranch_NoVersionCheck(u, is_update) ==
    IF u.update_mode /\ ~is_update
    THEN IF u.can_mode_switch THEN "reopen_to_normal" ELSE "exit_in_update_mode"
    ELSE IF is_update /\ ~u.update_mode
    THEN IF u.can_mode_switch THEN "reopen_to_update"
         ELSE "exit_not_in_update_mode"
    ELSE "return"

\* usb_mode_check: which branch the entry state takes
ModeCheckBranch(u, is_update) ==
    IF u.update_mode /\ ~is_update
    THEN IF u.can_mode_switch THEN "reopen_to_normal" ELSE "exit_in_update_mode"
    ELSE IF is_update /\ ~u.update_mode
    THEN IF u.can_mode_switch THEN "reopen_to_update"
         ELSE "exit_not_in_update_mode"
    ELSE IF ~u.update_mode /\ u.update_needed
    THEN "exit_unsupported"
    ELSE "return"

\* AfterReopenToNormal that returns whatever mode the new session is in
AfterReopenToNormal_NoCheck(u) == "return"

\* usb_mode_check after the reopen for a normal operation:
\* if not usb.update_mode: return usb; otherwise fall through to sys.exit(1)
AfterReopenToNormal(u) == IF ~u.update_mode THEN "return" ELSE "exit"

\* error.check(pred, desc): raises error.Fatal(desc) unless pred holds
ErrorCheck(pred) == IF pred THEN "ok" ELSE "Fatal"

\* usb_mode_check after the reopen for an update:
\* error.check(usb.update_mode, ...); return usb
AfterReopenToUpdate(u) ==
    IF ErrorCheck(u.update_mode) = "ok" THEN "return" ELSE "Fatal"

\* Bound: usb_reopen calls the tool makes on the session usb_open returned
MaxCalls == 1

----------------------------------------------------------------------------
(* State                                                                   *)

VARIABLES
    pc,            \* the statement the tool is at
    op,            \* the function the caller invoked: usb_open or usb_reopen
    devicename,    \* usb_open: its devicename (the argument, then the path found)
    given,         \* usb_open: the devicename argument as the caller passed it
    is_update,     \* the is_update argument of the running call
    mode_check,    \* usb_open: its mode_check argument
    is_win7,       \* the host is Windows 7
    usb,           \* the session the running function holds (None before open)
    reopen_dev,    \* usb_reopen: devicename, the result of find_port
    i,             \* usb_reopen: the loop variable
    sleeps,        \* usb_reopen: time.sleep(0.5) calls made by the running call
    ret,           \* where usb_reopen returns to
    open_sers,     \* handles of the serial channels that are open
    nser,          \* serial channels opened so far
    cmds,          \* arguments of the switch_fw_mode commands sent
    switch_outcome, \* usb_reopen: how switch_fw_mode ended, until the first delay
    result,        \* how the call ended: none, return, or the exception raised
    exit_status,   \* the argument of sys.exit
    first_flags,   \* jumperless_update and can_mode_switch as usb_open set them
    queried,       \* what the unit answered to the last USB.Unit query
    calls,         \* usb_reopen calls made by the caller after usb_open
    cand,          \* score_port: the candidate x
    prev,          \* score_port: old_port
    score,         \* score_port: its result (-1 before the call)
    spc,           \* the statement the scoring run is at
    comports,      \* find_port: the list comports() returned
    found,         \* find_port: how it ended (kind none before the call)
    dpc,           \* with_drive_selected: the statement it is at
    drive,         \* with_drive_selected: args.drive, <<bus type, unit>>
    motor,         \* with_drive_selected: the motor keyword, None if not given
    dcmds,         \* with_drive_selected: the calls made so far, in order
    raised,        \* with_drive_selected: what ended the try body
    pending,       \* with_drive_selected: the exception being propagated
    dresult        \* with_drive_selected: what its caller gets

toolVars ==
    <<pc, op, devicename, given, is_update, mode_check, is_win7, usb,
      reopen_dev, i, sleeps, ret, open_sers, nser, cmds, result, exit_status,
      switch_outcome, first_flags, queried, calls>>

scoreVars == <<cand, prev, score, spc, comports, found>>

driveVars == <<dpc, drive, motor, dcmds, raised, pending, dresult>>

vars == <<toolVars, scoreVars, driveVars>>

NotCalled == [kind |-> "none", device |-> ""]

NoScoring ==
    /\ cand = PortA /\ prev = None /\ score = -1 /\ spc = "idle"
    /\ comports = <<>> /\ found = NotCalled

\* with_drive_selected is not running
NoDrive ==
    /\ dpc = "idle" /\ drive = <<0, 0>> /\ motor = None /\ dcmds = <<>>
    /\ raised = "none" /\ pending = "none" /\ dresult = "none"

Init ==
    /\ pc = "usb_open"
    /\ op = "usb_open"
    /\ devicename \in {None} \cup {Some(d) : d \in DevicePaths}
    /\ given = devicename
    /\ is_update \in BOOLEAN
    /\ mode_check \in BOOLEAN
    /\ is_win7 \in BOOLEAN
    /\ usb = None
    /\ reopen_dev = None
    /\ i = 0
    /\ sleeps = 0
    /\ ret = "none"
    /\ open_sers = {}
    /\ nser = 0
    /\ cmds = <<>>
    /\ result = "none"
    /\ exit_status = 0
    /\ switch_outcome = "none"
    /\ first_flags = None
    /\ queried = None
    /\ calls = 0
    /\ NoScoring
    /\ NoDrive

\* The running call ends by raising exception e
Raise(e) == pc' = "done" /\ result' = e

\* sys.exit(1)
SysExit == pc' = "done" /\ result' = "SystemExit" /\ exit_status' = 1

\* The running top-level call returns usb
Return == pc' = "done" /\ result' = "return"

----------------------------------------------------------------------------
(* usb_open                                                                *)

\* usb_open: if devicename is None: devicename = find_port()
OpenFindPort ==
    /\ pc = "usb_open"
    /\ IF devicename # None
       THEN /\ pc' = "open_serial"
            /\ UNCHANGED <<devicename, result>>
       ELSE \E ports \in Enumerations :
              LET r == find_port(ports, None) IN
              IF r.kind = "ok"
              THEN /\ devicename' = Some(r.device)
                   /\ pc' = "open_serial"
                   /\ UNCHANGED result
              ELSE /\ Raise(IF r.kind = "TypeError" THEN "TypeError"
                            ELSE "SerialException: Cannot find the Greaseweazle device")
                   /\ UNCHANGED devicename
    /\ UNCHANGED <<op, is_update, mode_check, is_win7, usb, reopen_dev,
                   i, sleeps, ret, open_sers, nser, cmds, exit_status,
                   given, switch_outcome,
                   first_flags, queried, calls, scoreVars, driveVars>>

\* usb_open: serial.Serial(devicename) fails
OpenSerialFails ==
    /\ pc = "open_serial"
    /\ Raise("SerialException: could not open port")
    /\ UNCHANGED <<op, devicename, is_update, mode_check, is_win7, usb,
                   reopen_dev, i, sleeps, ret, open_sers, nser, cmds,
                   exit_status, given, switch_outcome,
                   first_flags, queried, calls, scoreVars, driveVars>>

\* usb_open: usb = USB.Unit(serial.Serial(devicename)) up to can_mode_switch,
\* then the mode_check test
OpenSerial ==
    /\ pc = "open_serial"
    /\ \E info \in Infos, ports \in Enumerations :
         LET u == OpenedUnit(Serial(nser + 1, Val(devicename)), info, ports, is_win7)
         IN  /\ usb' = Some(u)
             /\ first_flags' = Some(<<u.jumperless_update, u.can_mode_switch>>)
             /\ queried' = Some(info)
    /\ nser' = nser + 1
    /\ open_sers' = open_sers \cup {nser + 1}
    /\ IF mode_check
       THEN pc' = "usb_mode_check" /\ UNCHANGED result
       ELSE Return
    /\ UNCHANGED <<op, devicename, given, is_update, mode_check, is_win7,
                   reopen_dev, i, sleeps, ret, cmds, switch_outcome,
                   exit_status, calls,
                   scoreVars, driveVars>>

----------------------------------------------------------------------------
(* usb_mode_check                                                          *)

\* usb_mode_check, from its entry to the first reopen, exit or return
ModeCheck ==
    /\ pc = "usb_mode_check"
    /\ LET b == ModeCheckBranch(Val(usb), is_update) IN
       CASE b = "reopen_to_normal" ->
              /\ pc' = "reopen_switch" /\ ret' = "after_reopen_to_normal"
              /\ UNCHANGED <<result, exit_status>>
         [] b = "reopen_to_update" ->
              /\ pc' = "reopen_switch" /\ ret' = "after_reopen_to_update"
              /\ UNCHANGED <<result, exit_status>>
         [] b \in {"exit_in_update_mode", "exit_not_in_update_mode",
                   "exit_unsupported"} ->
              /\ SysExit /\ UNCHANGED ret
         [] OTHER ->
              /\ Return /\ UNCHANGED <<ret, exit_status>>
    /\ UNCHANGED <<op, devicename, is_update, mode_check, is_win7, usb,
                   reopen_dev, i, sleeps, open_sers, nser, cmds, given,
                   switch_outcome,
                   first_flags,                   queried,
                   calls, scoreVars, driveVars>>

\* usb_mode_check: if not usb.update_mode: return usb, else print and exit
ModeCheckAfterNormal ==
    /\ pc = "after_reopen_to_normal"
    /\ IF AfterReopenToNormal(Val(usb)) = "return"
       THEN Return /\ UNCHANGED exit_status
       ELSE SysExit
    /\ UNCHANGED <<op, devicename, is_update, mode_check, is_win7, usb,
                   reopen_dev, i, sleeps, ret, open_sers, nser, cmds,
                   given, switch_outcome,
                   first_flags, queried, calls, scoreVars, driveVars>>

\* usb_mode_check: error.check(usb.update_mode, ...); return usb
ModeCheckAfterUpdate ==
    /\ pc = "after_reopen_to_update"
    /\ IF AfterReopenToUpdate(Val(usb)) = "return"
       THEN Return
       ELSE Raise("Fatal")
    /\ UNCHANGED <<op, devicename, is_update, mode_check, is_win7, usb,
                   reopen_dev, i, sleeps, ret, open_sers, nser, cmds,
                   exit_status, given, switch_outcome,
                   first_flags, queried, calls, scoreVars, driveVars>>

----------------------------------------------------------------------------
(* usb_reopen                                                              *)

\* usb_reopen: try: usb.switch_fw_mode(mode[is_update]) except ...: pass
ReopenSwitch ==
    /\ pc = "reopen_switch"
    /\ cmds' = Append(cmds, SwitchModeArg(is_update))
    /\ sleeps' = 0
    /\ \E outcome \in SwitchOutcomes :
         /\ switch_outcome' = outcome
         /\ IF outcome = "ok" \/ SwitchCaught(outcome)
            THEN pc' = "reopen_close" /\ UNCHANGED result
            ELSE Raise(outcome)
    /\ UNCHANGED <<op, devicename, is_update, mode_check, is_win7, usb,
                   reopen_dev, i, ret, open_sers, nser, exit_status,
                   given, first_flags, queried, calls, scoreVars, driveVars>>

\* ReopenClose that leaves the old channel open
ReopenClose_NoClose ==
    /\ pc = "reopen_close"
    /\ i' = 0
    /\ pc' = "reopen_loop"
    /\ UNCHANGED <<op, devicename, is_update, mode_check, is_win7, usb,
                   reopen_dev, sleeps, ret, open_sers, nser, cmds, result,
                   exit_status, given, switch_outcome,
                   first_flags, queried, calls, scoreVars, driveVars>>

\* usb_reopen: usb.ser.close(), then the loop starts at i = 0
ReopenClose ==
    /\ pc = "reopen_close"
    /\ open_sers' = open_sers \ {Val(usb).ser.id}
    /\ i' = 0
    /\ pc' = "reopen_loop"
    /\ UNCHANGED <<op, devicename, is_update, mode_check, is_win7, usb,
                   reopen_dev, sleeps, ret, nser, cmds, result, exit_status,
                   given, switch_outcome,
                   first_flags, queried, calls, scoreVars, driveVars>>

\* usb_reopen: the loop has an iteration left: time.sleep(0.5)
ReopenSleep ==
    /\ pc = "reopen_loop"
    /\ LoopContinues(i)
    /\ sleeps' = sleeps + 1
    /\ switch_outcome' = "none"
    /\ pc' = "reopen_find"
    /\ UNCHANGED <<op, devicename, is_update, mode_check, is_win7, usb,
                   reopen_dev, i, ret, open_sers, nser, cmds, result,
                   exit_status, given, first_flags, queried, calls, scoreVars, driveVars>>

\* usb_reopen: the loop is exhausted: raise serial.SerialException(...)
ReopenTimeout ==
    /\ pc = "reopen_loop"
    /\ ~LoopContinues(i)
    /\ Raise("SerialException: Could not reopen port after mode switch")
    /\ UNCHANGED <<op, devicename, is_update, mode_check, is_win7, usb,
                   reopen_dev, i, sleeps, ret, open_sers, nser, cmds,
                   exit_status, given, switch_outcome,
                   first_flags, queried, calls, scoreVars, driveVars>>

\* ReopenFindPort that locates the port as a first open does: find_port()
ReopenFindPort_Unanchored ==
    /\ pc = "reopen_find"
    /\ \E ports \in Enumerations :
         LET r == find_port(ports, None) IN
         CASE r.kind = "ok" ->
                /\ reopen_dev' = Some(r.device)
                /\ pc' = "reopen_serial"
                /\ UNCHANGED <<i, result>>
           [] r.kind = "SerialException" ->
                /\ i' = i + 1
                /\ pc' = "reopen_loop"
                /\ UNCHANGED <<reopen_dev, result>>
           [] OTHER ->
                /\ Raise("TypeError")
                /\ UNCHANGED <<reopen_dev, i>>
    /\ UNCHANGED <<op, devicename, is_update, mode_check, is_win7, usb,
                   sleeps, ret, open_sers, nser, cmds, exit_status,
                   given, switch_outcome,
                   first_flags, queried, calls, scoreVars, driveVars>>

\* usb_reopen: devicename = find_port(usb.port_info); a SerialException is
\* caught and the loop goes on, a TypeError leaves usb_reopen
ReopenFindPort ==
    /\ pc = "reopen_find"
    /\ \E ports \in Enumerations :
         LET r == find_port(ports, Val(usb).port_info) IN
         CASE r.kind = "ok" ->
                /\ reopen_dev' = Some(r.device)
                /\ pc' = "reopen_serial"
                /\ UNCHANGED <<i, result>>
           [] r.kind = "SerialException" ->
                /\ i' = i + 1
                /\ pc' = "reopen_loop"
                /\ UNCHANGED <<reopen_dev, result>>
           [] OTHER ->
                /\ Raise("TypeError")
                /\ UNCHANGED <<reopen_dev, i>>
    /\ UNCHANGED <<op, devicename, is_update, mode_check, is_win7, usb,
                   sleeps, ret, open_sers, nser, cmds, exit_status,
                   given, switch_outcome,
                   first_flags, queried, calls, scoreVars, driveVars>>

\* usb_reopen: serial.Serial(devicename) raises SerialException: caught
ReopenSerialFails ==
    /\ pc = "reopen_serial"
    /\ i' = i + 1
    /\ pc' = "reopen_loop"
    /\ UNCHANGED <<op, devicename, is_update, mode_check, is_win7, usb,
                   reopen_dev, sleeps, ret, open_sers, nser, cmds, result,
                   exit_status, given, switch_outcome,
                   first_flags, queried, calls, scoreVars, driveVars>>

\* usb_reopen: serial.Serial(devicename) succeeds; the else branch builds
\* new_usb and returns it, and the caller assigns it to its usb
ReopenSerial ==
    /\ pc = "reopen_serial"
    /\ \E info \in ReopenInfos(Val(usb)), ports \in Enumerations :
         /\ usb' = Some(ReopenedUnit(Serial(nser + 1, Val(reopen_dev)),
                                     info, ports, Val(usb)))
         /\ queried' = Some(info)
    /\ nser' = nser + 1
    /\ open_sers' = open_sers \cup {nser + 1}
    /\ IF ret = "caller"
       THEN Return
       ELSE pc' = ret /\ UNCHANGED result
    /\ ret' = "none"
    /\ UNCHANGED <<op, devicename, is_update, mode_check, is_win7, reopen_dev,
                   i, sleeps, cmds, exit_status, given, switch_outcome,
                   first_flags, calls,
                   scoreVars, driveVars>>

\* The tool calls usb_reopen(usb, is_update) on the session it holds, to
\* switch the unit to the mode it is not in
CallReopen ==
    /\ pc = "done"
    /\ result = "return"
    /\ calls < MaxCalls
    /\ calls' = calls + 1
    /\ op' = "usb_reopen"
    /\ is_update' = ~Val(usb).update_mode
    /\ ret' = "caller"
    /\ result' = "none"
    /\ pc' = "reopen_switch"
    /\ reopen_dev' = None
    /\ i' = 0
    /\ sleeps' = 0
    /\ devicename' = None
    /\ given' = None
    /\ mode_check' = FALSE
    /\ UNCHANGED <<is_win7, usb, open_sers, nser, cmds, exit_status,
                   switch_outcome,
                   first_flags, queried, scoreVars, driveVars>>

Next ==
    \/ OpenFindPort
    \/ OpenSerialFails
    \/ OpenSerial
    \/ ModeCheck
    \/ ModeCheckAfterNormal
    \/ ModeCheckAfterUpdate
    \/ ReopenSwitch
    \/ ReopenClose
    \/ ReopenSleep
    \/ ReopenTimeout
    \/ ReopenFindPort
    \/ ReopenSerialFails
    \/ ReopenSerial
    \/ CallReopen

Spec == Init /\ [][Next]_vars

----------------------------------------------------------------------------
(* score_port as a function of its two arguments                           *)

\* Serial numbers: None, "", valid ones in both cases, and invalid ones
SerialNumbers ==
    {None, Some(<<>>), Some(<<"G", "W", "1">>), Some(<<"g", "w", "1">>),
     Some(<<"G", "W", "2">>), Some(<<"G">>), Some(<<"x", "G", "W">>)}

Locations == {None, Some(""), Some("1-1"), Some("1-2")}

Candidates ==
    {ListPortInfo("/dev/ttyACM0", m, p, v, d, s, l) :
        m \in {Some("Keir Fraser"), Some("Adafruit")},
        p \in {Some("Greaseweazle"), Some("Other")},
        \* 1027 (0x0403) and 24577 (0x6001) are ids score_port does not know
        v \in {None, Some(VID_PIDCODES), Some(VID_RASPBERRYPI),
               Some(VID_ADAFRUIT), Some(1027)},
        d \in {None, Some(PID_GREASEWEAZLE), Some(PID_TEST), Some(24577)},
        s \in SerialNumbers,
        l \in Locations}

PreviousPorts ==
    {None} \cup
    {Some([PortA EXCEPT !.serial_number = s, !.location = l]) :
        s \in SerialNumbers, l \in Locations}

ToolIdle ==
    /\ pc = "idle" /\ op = "none" /\ devicename = None /\ given = None
    /\ is_update = FALSE
    /\ mode_check = FALSE /\ is_win7 = FALSE /\ usb = None
    /\ reopen_dev = None /\ i = 0 /\ sleeps = 0 /\ ret = "none"
    /\ open_sers = {} /\ nser = 0 /\ cmds = <<>> /\ result = "none"
    /\ exit_status = 0 /\ first_flags = None /\ queried = None
    /\ switch_outcome = "none"
    /\ calls = 0

ScoreInit ==
    /\ ToolIdle
    /\ cand \in Candidates
    /\ prev \in PreviousPorts
    /\ score = -1
    /\ spc = "score_port"
    /\ comports = <<>>
    /\ found = NotCalled
    /\ NoDrive

\* score = score_port(x, old_port)
ScoreCall ==
    /\ spc = "score_port"
    /\ score' = score_port(cand, prev)
    /\ spc' = "done"
    /\ UNCHANGED <<cand, prev, comports, found, toolVars, driveVars>>

ScoreNext == ScoreCall

ScoreSpec == ScoreInit /\ [][ScoreNext]_vars

----------------------------------------------------------------------------
(* find_port as a function of the enumeration and the previous port        *)

\* A board of an allow-listed vendor that reports no serial number
PortP == ListPortInfo("/dev/ttyACM2", Some("Adafruit"), Some("Feather"),
                      Some(VID_ADAFRUIT), Some(PID_TEST), None, Some("1-1"))

\* A USB serial adapter of a vendor score_port does not know (0x0403:0x6001)
PortF == ListPortInfo("/dev/ttyUSB0", Some("FTDI"), Some("FT232R"),
                      Some(1027), Some(24577), None, Some("1-3"))

FindPorts == HostPorts \cup {PortP, PortF}

\* What comports() may return to one find_port call
FindEnumerations ==
    {ps \in UNION {[1..n -> FindPorts] : n \in 0..MaxPorts} :
        \A a, b \in 1..Len(ps) : a # b => ps[a].device # ps[b].device}

\* The old_port of a find_port call: None, an enumerated port, or one whose
\* location is not known
FindPreviousPorts ==
    {None} \cup {Some(p) : p \in FindPorts}
           \cup {Some([p EXCEPT !.location = None]) : p \in {PortA, PortP}}

FindInit ==
    /\ ToolIdle
    /\ cand = PortA
    /\ prev \in FindPreviousPorts
    /\ score = -1
    /\ spc = "find_port"
    /\ comports \in FindEnumerations
    /\ found = NotCalled
    /\ NoDrive

\* devicename = find_port(old_port), or the exception it raises
FindCall ==
    /\ spc = "find_port"
    /\ found' = find_port(comports, prev)
    /\ spc' = "done"
    /\ UNCHANGED <<cand, prev, score, comports, toolVars, driveVars>>

FindNext == FindCall

FindSpec == FindInit /\ [][FindNext]_vars

-----------------------------------------------------------------------------
(* with_drive_selected(fn, usb, args, motor=True)                          *)

\* How a call on the unit, or the wrapped operation, may end
CallOutcomes == {"ok", "Exception", "KeyboardInterrupt"}

\* args.drive: a bus type and a unit number on that bus
Drives == {<<1, 0>>, <<1, 1>>, <<2, 0>>, <<2, 1>>}

\* _kwargs.pop('motor', True)
MotorArg(kw) == IF kw = None THEN TRUE ELSE Val(kw)

Call(name, args) == [cmd |-> name, args |-> args]

DriveInit ==
    /\ ToolIdle
    /\ NoScoring
    /\ dpc = "set_bus_type"
    /\ drive \in Drives
    /\ motor \in {None, Some(TRUE), Some(FALSE)}
    /\ dcmds = <<>>
    /\ raised = "none" /\ pending = "none" /\ dresult = "none"

\* An exception inside the try body: KeyboardInterrupt enters the except
\* clause, anything else goes straight to the finally clause
TryRaises(e) ==
    /\ raised' = e
    /\ pending' = e
    /\ dpc' = IF e = "KeyboardInterrupt" THEN "except_reset" ELSE "finally_motor"
    /\ UNCHANGED dresult

\* An exception outside the try body, or inside the finally clause
DriveRaise(e) ==
    /\ dresult' = e
    /\ pending' = e
    /\ dpc' = "done"
    /\ UNCHANGED raised

\* usb.set_bus_type(args.drive[0]), before the try statement
SetBusType ==
    /\ dpc = "set_bus_type"
    /\ dcmds' = Append(dcmds, Call("set_bus_type", <<drive[1]>>))
    /\ \E outcome \in CallOutcomes :
         IF outcome = "ok"
         THEN dpc' = "drive_select" /\ UNCHANGED <<raised, pending, dresult>>
         ELSE DriveRaise(outcome)
    /\ UNCHANGED <<drive, motor, toolVars, scoreVars>>

\* usb.drive_select(args.drive[1])
DriveSelect ==
    /\ dpc = "drive_select"
    /\ dcmds' = Append(dcmds, Call("drive_select", <<drive[2]>>))
    /\ \E outcome \in CallOutcomes :
         IF outcome = "ok"
         THEN dpc' = "drive_motor" /\ UNCHANGED <<raised, pending, dresult>>
         ELSE TryRaises(outcome)
    /\ UNCHANGED <<drive, motor, toolVars, scoreVars>>

\* usb.drive_motor(args.drive[1], _kwargs.pop('motor', True))
DriveMotor ==
    /\ dpc = "drive_motor"
    /\ dcmds' = Append(dcmds, Call("drive_motor", <<drive[2], MotorArg(motor)>>))
    /\ \E outcome \in CallOutcomes :
         IF outcome = "ok"
         THEN dpc' = "fn" /\ UNCHANGED <<raised, pending, dresult>>
         ELSE TryRaises(outcome)
    /\ UNCHANGED <<drive, motor, toolVars, scoreVars>>

\* fn(usb, args, *_args, **_kwargs)
WrappedFn ==
    /\ dpc = "fn"
    /\ dcmds' = Append(dcmds, Call("fn", <<>>))
    /\ \E outcome \in CallOutcomes :
         IF outcome = "ok"
         THEN dpc' = "finally_motor" /\ UNCHANGED <<raised, pending, dresult>>
         ELSE TryRaises(outcome)
    /\ UNCHANGED <<drive, motor, toolVars, scoreVars>>

\* except KeyboardInterrupt: print(); usb.reset(); raise.  An exception
\* from usb.reset() replaces the interrupt; the finally clause runs either way
ExceptReset ==
    /\ dpc = "except_reset"
    /\ dcmds' = Append(dcmds, Call("reset", <<>>))
    /\ \E outcome \in CallOutcomes :
         pending' = IF outcome = "ok" THEN pending ELSE outcome
    /\ dpc' = "finally_motor"
    /\ UNCHANGED <<drive, motor, raised, dresult, toolVars, scoreVars>>

\* finally: usb.drive_motor(args.drive[1], False)
FinallyMotorOff ==
    /\ dpc = "finally_motor"
    /\ dcmds' = Append(dcmds, Call("drive_motor", <<drive[2], FALSE>>))
    /\ \E outcome \in CallOutcomes :
         IF outcome = "ok"
         THEN dpc' = "finally_deselect" /\ UNCHANGED <<raised, pending, dresult>>
         ELSE DriveRaise(outcome)
    /\ UNCHANGED <<drive, motor, toolVars, scoreVars>>

\* finally: usb.drive_deselect(), then the pending exception is re-raised
\* or the function returns
FinallyDeselect ==
    /\ dpc = "finally_deselect"
    /\ dcmds' = Append(dcmds, Call("drive_deselect", <<>>))
    /\ \E outcome \in CallOutcomes :
         IF outcome = "ok"
         THEN /\ dresult' = IF pending = "none" THEN "return" ELSE pending
              /\ dpc' = "done"
              /\ UNCHANGED <<raised, pending>>
         ELSE DriveRaise(outcome)
    /\ UNCHANGED <<drive, motor, toolVars, scoreVars>>

DriveNext ==
    \/ SetBusType
    \/ DriveSelect
    \/ DriveMotor
    \/ WrappedFn
    \/ ExceptReset
    \/ FinallyMotorOff
    \/ FinallyDeselect

DriveSpec == DriveInit /\ [][DriveNext]_vars

----------------------------------------------------------------------------
(* Properties of the mode check and the mode switch                        *)

TimeoutError == "SerialException: Could not reopen port after mode switch"

ReopenLoopPcs == {"reopen_loop", "reopen_find", "reopen_serial"}

\* usb_open ran its mode check and the call has ended
ModeCheckEnded == op = "usb_open" /\ mode_check /\ pc = "done" /\ usb # None

\* The session usb was returned by a usb_reopen that succeeded
ReopenSucceeded ==
    \/ pc \in {"after_reopen_to_normal", "after_reopen_to_update"}
    \/ /\ pc = "done"
       /\ cmds # <<>>
       /\ result \in {"return", "SystemExit", "Fatal"}

\* C1: whenever usb_open with mode_check returns a session, the session is in
\* update mode if and only if the operation is an update; a session whose mode
\* does not match the operation is never returned.
C1_ReturnedModeMatches ==
    (ModeCheckEnded /\ result = "return")
        => (Val(usb).update_mode <=> is_update)

\* C1 witness: the mode check returned an update-mode session that it got by
\* switching a unit that was sensed in normal mode.
C1_Witness ==
    /\ ModeCheckEnded /\ result = "return"
    /\ is_update /\ Val(usb).update_mode
    /\ cmds = <<0>>

\* C2: when the sensed mode conflicts with the operation and can_mode_switch
\* is false, the mode check exits with status 1, returns nothing, sends no
\* mode-change command and leaves the channel open.
C2_NoSwitchExits ==
    [][(/\ pc = "usb_mode_check"
        /\ Val(usb).update_mode # is_update
        /\ ~Val(usb).can_mode_switch)
       => (/\ pc' = "done"
           /\ result' = "SystemExit"
           /\ exit_status' = 1
           /\ cmds' = cmds
           /\ usb' = usb
           /\ open_sers' = open_sers
           /\ Val(usb).ser.id \in open_sers')]_vars

\* C2 witness: the exit of a conflicting session that cannot switch mode.
C2_Witness ==
    /\ ModeCheckEnded /\ result = "SystemExit" /\ exit_status = 1
    /\ Val(usb).update_mode # is_update
    /\ ~Val(usb).can_mode_switch
    /\ cmds = <<>>
    /\ Val(usb).ser.id \in open_sers

\* C3: usb_reopen returns the session of the first attempt whose find_port and
\* serial open both succeed: the i failed attempts before it were swallowed
\* (the loop went on, nothing was raised), the session is bound to the path
\* find_port returned in that attempt, its channel is open, and no attempt
\* follows it (i + 1 delays were made, i + 1 <= 10).
C3_FirstSuccessWins ==
    /\ pc \in ReopenLoopPcs
         => /\ result = "none"
            /\ sleeps = (IF pc = "reopen_loop" THEN i ELSE i + 1)
    /\ ReopenSucceeded
         => /\ Val(usb).ser.port = Val(reopen_dev)
            /\ Val(usb).ser.id \in open_sers
            /\ i < MaxAttempts
            /\ sleeps = i + 1

\* C3 witness: the mode check of a unit in update mode got a normal-mode
\* session at the third attempt, on another path than the one first opened.
C3_Witness ==
    /\ ModeCheckEnded /\ result = "return"
    /\ ~is_update /\ ~Val(usb).update_mode
    /\ cmds = <<1>>
    /\ i = 2
    /\ Val(usb).ser.port # Val(devicename)

\* C4: usb_reopen makes at most 10 attempts, one 0.5 delay before each, and
\* when 10 attempts have failed it raises 'Could not reopen port after mode
\* switch': it neither goes on nor returns a session.
C4_BoundedRetries ==
    /\ i <= MaxAttempts
    /\ sleeps <= MaxAttempts
    /\ pc \in ReopenLoopPcs
         => sleeps = (IF pc = "reopen_loop" THEN i ELSE i + 1)
    /\ (pc = "done" /\ i = MaxAttempts)
         => result = TimeoutError
    /\ result = TimeoutError
         => /\ i = MaxAttempts
            /\ sleeps = MaxAttempts
            /\ pc = "done"
            /\ open_sers = {}

\* C4 witness: all ten attempts failed.
C4_Witness == result = TimeoutError /\ sleeps = MaxAttempts

\* C5: at most one channel is open at any time, and none is open while
\* usb_reopen is in its locate-and-open loop (the old one was closed first).
C5_OneOpenChannel ==
    /\ Cardinality(open_sers) <= 1
    /\ pc \in ReopenLoopPcs => open_sers = {}

\* C5 witness: a second channel has been opened by a mode switch and is the
\* only open one.
C5_Witness == nser = 2 /\ open_sers = {2} /\ Val(usb).ser.id = 2

\* C6: every session carries the jumperless_update and can_mode_switch that
\* usb_open derived for the first session, through any number of mode
\* switches, while its update_mode is the one the unit answered to the query
\* made when that session was opened.
C6_FlagsCarriedOver ==
    usb # None
        => /\ first_flags = Some(<<Val(usb).jumperless_update,
                                   Val(usb).can_mode_switch>>)
           /\ queried # None
           /\ Val(usb).update_mode = Val(queried).update_mode

\* C6 witness: a unit sensed in normal mode was switched to update mode and
\* back to normal mode.
C6_Witness ==
    /\ op = "usb_reopen" /\ result = "return"
    /\ cmds = <<0, 1>>
    /\ ~Val(usb).update_mode
    /\ nser = 3

\* C7: a normal operation on a unit sensed in normal mode exits with status 1
\* when update_needed is set, and otherwise returns the same session with no
\* mode switch.
C7_UnsupportedFirmware ==
    [][(/\ pc = "usb_mode_check"
        /\ ~Val(usb).update_mode
        /\ ~is_update)
       => /\ pc' = "done"
          /\ usb' = usb
          /\ cmds' = cmds
          /\ open_sers' = open_sers
          /\ IF Val(usb).update_needed
             THEN result' = "SystemExit" /\ exit_status' = 1
             ELSE result' = "return"]_vars

\* C7 witness: the exit for unsupported firmware.
C7_Witness ==
    /\ ModeCheckEnded /\ result = "SystemExit" /\ exit_status = 1
    /\ ~Val(usb).update_mode /\ ~is_update
    /\ Val(usb).update_needed
    /\ cmds = <<>>

----------------------------------------------------------------------------
(* Properties of score_port                                                *)

\* A serial identifier is valid: non-empty with a case-insensitive GW prefix
ClaimValidSerial(s) ==
    /\ s # None
    /\ Len(Val(s)) >= 2
    /\ Val(s)[1] \in {"G", "g"}
    /\ Val(s)[2] \in {"W", "w"}

\* The candidate and the previous port carry the same valid serial identifier
SameValidSerial ==
    /\ prev # None
    /\ ClaimValidSerial(cand.serial_number)
    /\ ClaimValidSerial(Val(prev).serial_number)
    /\ cand.serial_number = Val(prev).serial_number

\* The previous port has a bus location the candidate does not share
LocationMismatch ==
    /\ prev # None
    /\ Val(prev).location \notin {None, Some("")}
    /\ cand.location # Val(prev).location

\* C8 as stated: a base score of at least 1 and equal valid serial
\* identifiers give score 30.
C8_Original ==
    (spc = "done" /\ BaseScore(cand) >= 1 /\ SameValidSerial)
        => score = 30

\* C8 amended: a base score of at least 1 and equal valid serial identifiers
\* give score 30 unless the previous port has a non-empty bus location that
\* the candidate does not share.
C8_MatchingSerialScores30 ==
    (spc = "done" /\ BaseScore(cand) >= 1 /\ SameValidSerial
        /\ ~LocationMismatch)
        => score = 30

\* C8 witness: a candidate of base score 5 was raised to 30 by its serial.
C8_Witness ==
    /\ spc = "done" /\ BaseScore(cand) = 5 /\ SameValidSerial
    /\ ~LocationMismatch
    /\ score = 30

\* C9: valid serial identifiers that differ give score 0, whatever the base
\* score and whether or not the bus locations match.
C9_DifferentSerialVetoes ==
    (/\ spc = "done"
     /\ prev # None
     /\ ClaimValidSerial(cand.serial_number)
     /\ ClaimValidSerial(Val(prev).serial_number)
     /\ cand.serial_number # Val(prev).serial_number)
        => score = 0

\* C9 witness: a candidate of base score 20 at the previous port's location
\* was rejected for its serial.
C9_Witness ==
    /\ spc = "done" /\ prev # None
    /\ BaseScore(cand) = 20
    /\ ClaimValidSerial(cand.serial_number)
    /\ ClaimValidSerial(Val(prev).serial_number)
    /\ cand.serial_number # Val(prev).serial_number
    /\ cand.location = Some("1-1") /\ Val(prev).location = Some("1-1")
    /\ score = 0

\* C10: when the previous port has a non-empty bus location and the candidate
\* has none or another one, the score is 0, even when the identity signals
\* alone would give 20 or 30.
C10_LocationMismatchVetoes ==
    (spc = "done" /\ LocationMismatch) => score = 0

\* C10 witness: a candidate whose identity signals give 30 was rejected for
\* having no location.
C10_Witness ==
    /\ spc = "done" /\ LocationMismatch
    /\ cand.location = None
    /\ BaseScore(cand) >= 1 /\ SameValidSerial
    /\ score = 0


\* The candidate matches one of the identity signals score_port recognises
Recognised ==
    \/ cand.manufacturer = Some("Keir Fraser")
         /\ cand.product = Some("Greaseweazle")
    \/ cand.vid = Some(4617) /\ cand.pid = Some(19817)
    \/ cand.vid = Some(4617) /\ cand.pid = Some(1)
    \/ cand.vid = Some(11914)
    \/ cand.vid = Some(9114)

\* C11: with no previous port a candidate matching a recognised identity
\* signal scores between 5 and 20; a candidate matching none scores 0 for
\* every previous port, also when it carries the previous port's valid serial.
C11_ScoreRange ==
    spc = "done"
        => /\ (Recognised /\ prev = None) => (score >= 5 /\ score <= 20)
           /\ ~Recognised => score = 0

\* C11 witness: an unrecognised candidate carrying the previous port's valid
\* serial identifier, at the previous port's location, scored 0.
C11_Witness ==
    /\ spc = "done" /\ ~Recognised /\ SameValidSerial
    /\ ~LocationMismatch
    /\ score = 0


\* The previous port has a non-empty bus location and the candidate shares it
LocationMatch ==
    /\ prev # None
    /\ Val(prev).location \notin {None, Some("")}
    /\ cand.location = Val(prev).location

\* C18: a bus-location match never raises a score: the score against a
\* previous port whose location the candidate shares equals the score against
\* the same previous port with its location removed.
C18_LocationMatchAddsNothing ==
    (spc = "done" /\ LocationMatch)
        => score = score_port(cand, Some([Val(prev) EXCEPT !.location = None]))

\* C18 witness: a recognised candidate without a valid serial, at the previous
\* port's location, kept a base score of 10.
C18_Witness ==
    /\ spc = "done" /\ LocationMatch
    /\ ~ClaimValidSerial(cand.serial_number)
    /\ score = 10


----------------------------------------------------------------------------
(* Properties of find_port                                                 *)

\* The score of the k-th enumerated candidate against the previous port
ScoreAt(k) == score_port(comports[k], prev)

\* C12: the device find_port returns is the earliest-enumerated candidate
\* among those of maximal score: no candidate scores higher and every earlier
\* candidate scores strictly lower.
C12_EarliestMaximum ==
    (spc = "done" /\ found.kind = "ok")
        => \E k \in 1..Len(comports) :
             /\ comports[k].device = found.device
             /\ \A j \in 1..Len(comports) : ScoreAt(j) <= ScoreAt(k)
             /\ \A j \in 1..(k - 1) : ScoreAt(j) < ScoreAt(k)

\* C12 witness: two candidates tie at the maximal score and the first one
\* enumerated was returned.
C12_Witness ==
    /\ spc = "done" /\ found.kind = "ok"
    /\ Len(comports) = 2
    /\ ScoreAt(1) = ScoreAt(2)
    /\ ScoreAt(1) = 30
    /\ found.device = comports[1].device

\* C13 as stated: find_port fails with 'Cannot find the Greaseweazle device'
\* exactly when no enumerated candidate scores above 0, and otherwise returns
\* a candidate whose score is above 0.
C13_NoDeviceFoundExactly ==
    spc = "done"
        => IF \A k \in 1..Len(comports) : ScoreAt(k) = 0
           THEN found.kind = "SerialException"
           ELSE /\ found.kind = "ok"
                /\ \E k \in 1..Len(comports) :
                     comports[k].device = found.device /\ ScoreAt(k) > 0


----------------------------------------------------------------------------
(* Properties of the open and reopen paths                                 *)

\* The paths find_port can return when it is anchored on old_port
Located(old_port) ==
    {Some(find_port(ps, old_port).device) :
        ps \in {q \in Enumerations : find_port(q, old_port).kind = "ok"}}

\* C14: a caller-supplied path is opened directly, with no port location; a
\* reopen attempt takes its path from find_port anchored on the old session's
\* port_info and opens that path.
C14_SuppliedPathOnlyAtFirstOpen ==
    [][/\ (pc = "usb_open" /\ devicename # None)
            => /\ pc' = "open_serial"
               /\ devicename' = given
               /\ result' = "none"
       /\ (pc = "open_serial" /\ given # None /\ nser' = nser + 1)
            => Val(usb').ser.port = Val(given)
       /\ (pc = "reopen_find" /\ pc' = "reopen_serial")
            => reopen_dev' \in Located(Val(usb).port_info)
       /\ (pc = "reopen_serial" /\ nser' = nser + 1)
            => Val(usb').ser.port = Val(reopen_dev)]_vars

\* C14 witness: usb_open was given a path, and the session its mode check
\* returned after a mode switch is on another path.
C14_Witness ==
    /\ op = "usb_open" /\ result = "return"
    /\ given # None
    /\ cmds # <<>>
    /\ nser = 2
    /\ Val(usb).ser.port # Val(given)


\* The session usb is the one usb_open built, before any mode switch
InitiallyOpened == usb # None /\ nser = 1

\* C15: the session usb_open builds has jumperless_update exactly when the
\* hardware is not model 1 submodel 0 and the host is not Windows 7, and
\* can_mode_switch exactly when jumperless_update holds and the unit is not
\* in update mode with the update jumper present.
C15_OpenDerivesFlags ==
    InitiallyOpened
        => /\ Val(usb).jumperless_update
                <=> (/\ ~(Val(usb).hw_model = 1 /\ Val(usb).hw_submodel = 0)
                     /\ ~is_win7)
           /\ Val(usb).can_mode_switch
                <=> (/\ Val(usb).jumperless_update
                     /\ ~(Val(usb).update_mode /\ Val(usb).update_jumpered))

\* C15 witness: a model 1 submodel 1 unit opened in update mode with the
\* jumper present: jumperless, but unable to switch mode.
C15_Witness ==
    /\ InitiallyOpened
    /\ Val(usb).hw_model = 1 /\ Val(usb).hw_submodel = 1
    /\ Val(usb).update_mode /\ Val(usb).update_jumpered
    /\ Val(usb).jumperless_update
    /\ ~Val(usb).can_mode_switch


(***************************************************************************)
(* C16: in usb_reopen, whether switch_fw_mode succeeds, gets a failed      *)
(* reply or hits an I/O error, the outcome is swallowed: the old channel   *)
(* is then closed and the retry loop entered from its first attempt, and   *)
(* the failure of that step is never what the caller gets.                 *)
(***************************************************************************)
SwitchJustEnded == switch_outcome # "none"

C16_SwitchOutcomeSwallowed ==
    /\ SwitchJustEnded
         => /\ switch_outcome \in SwitchOutcomes
            /\ pc \in {"reopen_close", "reopen_loop"}
            /\ result = "none"
            /\ exit_status = 0
    /\ (SwitchJustEnded /\ pc = "reopen_loop")
         => /\ open_sers = {}
            /\ i = 0 /\ sleeps = 0
            /\ LoopContinues(i)
    /\ result \notin SwitchOutcomes

C16_Witness ==
    /\ pc = "reopen_loop"
    /\ switch_outcome = "struct.error"
    /\ open_sers = {}
    /\ i = 0


(***************************************************************************)
(* C17: in with_drive_selected, once the bus type has been set, the motor  *)
(* is switched off and then the drive deselected on every exit path; when  *)
(* the try body was interrupted a reset is sent before that release and    *)
(* the caller gets the interrupt.                                          *)
(***************************************************************************)
BusTypeSet == Len(dcmds) >= 2

Sent(name) == \E k \in 1..Len(dcmds) : dcmds[k].cmd = name

ReleasedLast ==
    /\ Len(dcmds) >= 2
    /\ dcmds[Len(dcmds) - 1] = Call("drive_motor", <<drive[2], FALSE>>)
    /\ dcmds[Len(dcmds)] = Call("drive_deselect", <<>>)

ResetBeforeRelease ==
    /\ Len(dcmds) >= 3
    /\ dcmds[Len(dcmds) - 2] = Call("reset", <<>>)

C17_ReleasedOnEveryExit ==
    (dpc = "done" /\ BusTypeSet)
        => /\ ReleasedLast
           /\ raised = "KeyboardInterrupt"
                => ResetBeforeRelease /\ dresult = "KeyboardInterrupt"


(***************************************************************************)
(* C19: a mode check for a normal operation never returns a normal-mode    *)
(* session whose update_needed flag is set, whether the session is the one *)
(* first opened or one obtained by switching out of update mode.           *)
(***************************************************************************)
C19_ReturnedNormalNeverNeedsUpdate ==
    (ModeCheckEnded /\ result = "return" /\ ~is_update)
        => ~(~Val(usb).update_mode /\ Val(usb).update_needed)


(***************************************************************************)
(* C20: for every mode switch started from a session whose recorded port   *)
(* carries a valid serial identifier, the port recorded on the session     *)
(* usb_reopen returns is present and never carries a different valid       *)
(* serial identifier, however the enumeration changes between find_port,   *)
(* the open and port_info.                                                 *)
(***************************************************************************)
RecordedValidSerial(u) ==
    /\ u.port_info # None
    /\ ClaimValidSerial(Val(u.port_info).serial_number)

ReopenReturns == pc = "reopen_serial" /\ nser' = nser + 1

C20_ReopenKeepsSerialIdentity ==
    [][(ReopenReturns /\ RecordedValidSerial(Val(usb)))
          => /\ Val(usb').port_info # None
             /\ RecordedValidSerial(Val(usb'))
                  => Val(Val(usb').port_info).serial_number
                       = Val(Val(usb).port_info).serial_number]_vars

====
